---- MODULE Spec2Model ----
(***************************************************************************)
(* Model of the hex strategy game's production simulator                   *)
(* (buildingProduction.js over the catalog of buildingTypes.js).           *)
(*                                                                         *)
(* JavaScript values are modelled by what the code can observe of them:    *)
(*   - an optional value (a property that may be undefined) is a sequence  *)
(*     of length 0 (undefined) or 1 (defined);                             *)
(*   - a number held in an inventory bucket is a record Num(n) or NaN;     *)
(*   - productionProgress and productionSpeed are IEEE-754 doubles, kept   *)
(*     as exact integers in units of 2^-61 split in three limbs of 21      *)
(*     bits, and added with round-to-nearest-even to 53 significant bits,  *)
(*     as the JavaScript + operator does.                                  *)
(***************************************************************************)
EXTENDS Integers, Sequences, FiniteSets, TLC

VARIABLES catalog, placed_buildings, lastCall, ticks, age, deposits,
          config, WORLD_SEED, handles, held, taken, lastOp, calls,
          tableSeed, table, surveyRow, tally, objects, setupAt,
          localStorage, saveMessage, saveName, clock, lastSave

\* The state of the production simulator and of the terrain generator.
buildingVars == <<catalog, placed_buildings, lastCall, ticks, age, deposits>>
terrainVars == <<config, WORLD_SEED, handles, held, taken, lastOp, calls>>
\* A direct call of generatePermutationTable: its argument and its result.
tableVars == <<tableSeed, table>>
\* A survey of the kinds generateTerrain returns over a grid.
surveyVars == <<surveyRow, tally>>
\* The objects of the map (tracks by edge key) and the call of initialSetup.
setupVars == <<objects, setupAt>>
\* The saved games, the save dialog and the clock.
saveVars == <<localStorage, saveMessage, saveName, clock, lastSave>>

vars == <<buildingVars, terrainVars, tableVars, surveyVars, setupVars, saveVars>>

\* What the production simulator leaves alone, what the terrain module
\* leaves alone, and what a call of generatePermutationTable leaves alone.
outsideProduction == <<terrainVars, tableVars, surveyVars, setupVars, saveVars>>
outsideTerrain == <<buildingVars, tableVars, surveyVars, setupVars, saveVars>>
outsideTable == <<buildingVars, terrainVars, surveyVars, setupVars, saveVars>>
outsideSurvey == <<buildingVars, terrainVars, tableVars, setupVars, saveVars>>

(***************************************************************************)
(* Bounds of the model.                                                    *)
(***************************************************************************)
\* Number of buildings the player places.
MaxBuildings == 2
\* Number of updateBuildings calls (interval callbacks) in a run.
MaxTicks == 505
\* The player places buildings before tick PlaceWindow of the production loop.
PlaceWindow == 1
\* Trains deliver before tick DepositWindow of the production loop.
DepositWindow == 2
\* Number of addResourceToBuilding calls in a run.
MaxDeposits == 2
\* Largest amount of one addResourceToBuilding call.
MaxAmount == 1
\* Number of noise samples of a calibration (sampleNoiseDistribution).
Samples == 16
\* Number of calls of the terrain module's handlers in a run.
MaxCalls == 3
\* Columns and rows of the grid a survey of the terrain kinds covers.
SurveySize == 200

(***************************************************************************)
(* JavaScript values.                                                      *)
(***************************************************************************)
Undefined == <<>>
Some(x) == <<x>>
IsDefined(o) == Len(o) = 1
Get(o) == o[1]

Num(n) == [k |-> "num", n |-> n]
NaN == [k |-> "nan", n |-> 0]
IsNum(v) == v.k = "num"

(***************************************************************************)
(* IEEE-754 double arithmetic on values m * 2^-61, m = <<l2, l1, l0>> with *)
(* m = l2 * 2^42 + l1 * 2^21 + l0.                                         *)
(***************************************************************************)
Limb == 2097152

\* Carry propagation after an operation on the limbs.
Normalize(l2, l1, l0) ==
  LET n1 == l1 + (l0 \div Limb)
  IN  <<l2 + (n1 \div Limb), n1 % Limb, l0 % Limb>>

\* The unit in the last place of a value with top limb l2: 2^(b - 53) for a
\* value of b > 53 bits (a top limb of b - 42 > 11 bits), and 1 otherwise.
RECURSIVE Ulp(_)
Ulp(l2) == IF l2 < 2048 THEN 1 ELSE 2 * Ulp(l2 \div 2)

\* Round an exact value to 53 significant bits, ties to even.
RoundTo(m, u) ==
  LET q == m[3] \div u
      r == m[3] % u
  IN  IF 2 * r > u \/ (2 * r = u /\ q % 2 = 1)
      THEN Normalize(m[1], m[2], (q + 1) * u)
      ELSE <<m[1], m[2], q * u>>

RoundDouble(m) == RoundTo(m, Ulp(m[1]))

DoubleAdd(a, b) ==
  LET s == Normalize(a[1] + b[1], a[2] + b[2], a[3] + b[3])
  IN  RoundDouble(s)

\* a - b, and a < b, on the limbs.
DoubleSub(a, b) ==
  RoundDouble(Normalize(a[1] - b[1], a[2] - b[2], a[3] - b[3]))

DoubleLess(a, b) ==
  \/ a[1] < b[1]
  \/ a[1] = b[1] /\ a[2] < b[2]
  \/ a[1] = b[1] /\ a[2] = b[2] /\ a[3] < b[3]

Dbl(m) == [k |-> "num", m |-> m]
DblNaN == [k |-> "nan", m |-> <<0, 0, 0>>]
DblZero == Dbl(<<0, 0, 0>>)
\* 1.0 = 2^61 * 2^-61
DblOne == Dbl(<<524288, 0, 0>>)

\* a + b of JavaScript for an optional double a and an optional double b:
\* undefined converts to NaN, and NaN absorbs.
JsAdd(a, b) ==
  IF ~IsDefined(a) \/ ~IsDefined(b) THEN DblNaN
  ELSE IF Get(a).k = "nan" \/ Get(b).k = "nan" THEN DblNaN
  ELSE Dbl(DoubleAdd(Get(a).m, Get(b).m))

\* a >= 1.0 of JavaScript: false for NaN.
GeOne(a) == a.k = "num" /\ a.m[1] >= DblOne.m[1]

(***************************************************************************)
(* The catalog (buildingTypes.js).  A type is a record: id, produces (an   *)
(* optional {type, amount}; null is falsy like undefined), consumes (an    *)
(* optional list of {type, amount}) and productionSpeed (an optional       *)
(* double).                                                                *)
(***************************************************************************)
BuildingType(id, produces, consumes, productionSpeed) ==
  [id |-> id, produces |-> produces, consumes |-> consumes,
   productionSpeed |-> productionSpeed]

Recipe(type, amount) == [type |-> type, amount |-> amount]

\* The productionSpeed literals as doubles (units of 2^-61).
Speed0003 == Dbl(<<1572, 1811939, 687866>>)
Speed0005 == Dbl(<<2621, 922746, 1845494>>)
Speed00025 == Dbl(<<1310, 1509949, 922747>>)
Speed0002 == Dbl(<<1048, 1207959, 1157628>>)
Speed00015 == Dbl(<<786, 905969, 1392509>>)

FARM == BuildingType("farm", Some(Recipe("food", 1)), Some(<<>>), Some(Speed0003))
LUMBERYARD == BuildingType("lumberyard", Some(Recipe("wood", 1)), Some(<<>>), Some(Speed0005))
MINE == BuildingType("mine", Some(Recipe("ore", 1)), Some(<<>>), Some(Speed00025))
QUARRY == BuildingType("quarry", Some(Recipe("stone", 1)), Some(<<>>), Some(Speed0003))
SAWMILL == BuildingType("sawmill", Some(Recipe("planks", 1)), Some(<<Recipe("wood", 2)>>), Some(Speed0002))
SMELTER == BuildingType("smelter", Some(Recipe("metal", 1)), Some(<<Recipe("ore", 2)>>), Some(Speed00015))
HUB == BuildingType("hub", Undefined, Some(<<>>), Some(DblZero))

\* Object.values(BUILDING_TYPES), in insertion order.
BUILDING_TYPES == <<FARM, LUMBERYARD, MINE, QUARRY, SAWMILL, SMELTER, HUB>>

\* Object.values(cat).find(type => type.id === id): the first match, or undefined.
getBuildingType(cat, id) ==
  LET hits == {i \in 1..Len(cat) : cat[i].id = id}
  IN  IF hits = {} THEN Undefined
      ELSE Some(cat[CHOOSE i \in hits : \A j \in hits : i <= j])

(***************************************************************************)
(* Building instances.  inventory is an optional object with the resource  *)
(* quantities stored at its top level (top) and the optional sub-objects   *)
(* inputs and outputs; a bucket maps the resource kinds it holds to        *)
(* values.                                                                 *)
(***************************************************************************)
EmptyBucket == [x \in {} |-> NaN]

Put(bucket, kind, v) ==
  [x \in (DOMAIN bucket) \cup {kind} |-> IF x = kind THEN v ELSE bucket[x]]

\* bucket[kind] as an optional value.
Read(bucket, kind) == IF kind \in DOMAIN bucket THEN Some(bucket[kind]) ELSE Undefined

\* !v of JavaScript for an optional number: undefined, 0 and NaN are falsy.
Falsy(o) == ~IsDefined(o) \/ Get(o) = NaN \/ Get(o) = Num(0)

\* v || 0 for an optional number.
OrZero(o) == IF Falsy(o) THEN 0 ELSE Get(o).n

Inventory(top, inputs, outputs) == [top |-> top, inputs |-> inputs, outputs |-> outputs]

Building(type, inventory, productionProgress) ==
  [type |-> type, inventory |-> inventory, productionProgress |-> productionProgress]

(***************************************************************************)
(* buildingProduction.js                                                   *)
(***************************************************************************)
\* allAvailable that stops at the first requirement found in stock.
allAvailable_FirstOnly(inventory, reqs, i) ==
  IF i > Len(reqs) THEN TRUE
  ELSE OrZero(Read(inventory.top, reqs[i].type)) >= reqs[i].amount

\* checkProductionRequirements: inventory is the building's (defined) inventory.
RECURSIVE allAvailable(_, _, _)
allAvailable(inventory, reqs, i) ==
  IF i > Len(reqs) THEN TRUE
  ELSE IF OrZero(Read(inventory.top, reqs[i].type)) < reqs[i].amount THEN FALSE
  ELSE allAvailable(inventory, reqs, i + 1)

checkProductionRequirements(building, buildingType) ==
  IF ~IsDefined(buildingType.consumes) \/ Len(Get(buildingType.consumes)) = 0
  THEN TRUE
  ELSE allAvailable(Get(building.inventory), Get(buildingType.consumes), 1)

\* inputs[type] -= amount, then the clamp at 0: undefined - amount is NaN,
\* and NaN < 0 is false.
consumeOne(inputs, req) ==
  LET old == Read(inputs, req.type)
      sub == IF ~IsDefined(old) \/ Get(old) = NaN THEN NaN
             ELSE Num(Get(old).n - req.amount)
  IN  Put(inputs, req.type, IF IsNum(sub) /\ sub.n < 0 THEN Num(0) ELSE sub)

RECURSIVE consumeAll(_, _, _)
consumeAll(inputs, reqs, i) ==
  IF i > Len(reqs) THEN inputs
  ELSE consumeAll(consumeOne(inputs, reqs[i]), reqs, i + 1)

\* if (!outputs[type]) outputs[type] = 0; outputs[type] += amount
produceOne(outputs, recipe) ==
  Put(outputs, recipe.type, Num(OrZero(Read(outputs, recipe.type)) + recipe.amount))

\* completeProductionCycle: the inventory it leaves and whether it threw a
\* TypeError (a property read on an undefined inputs or outputs object).
completeProductionCycle(inventory, buildingType) ==
  LET consuming == IsDefined(buildingType.consumes)
                     /\ Len(Get(buildingType.consumes)) > 0
      throwsInputs == consuming /\ ~IsDefined(inventory.inputs)
      afterInputs ==
        IF consuming /\ ~throwsInputs
        THEN [inventory EXCEPT
                !.inputs = Some(consumeAll(Get(inventory.inputs),
                                           Get(buildingType.consumes), 1))]
        ELSE inventory
      producing == IsDefined(buildingType.produces)
      throwsOutputs == producing /\ ~IsDefined(inventory.outputs)
  IN  IF throwsInputs THEN [inventory |-> inventory, threw |-> TRUE]
      ELSE IF throwsOutputs THEN [inventory |-> afterInputs, threw |-> TRUE]
      ELSE IF producing
      THEN [inventory |-> [afterInputs EXCEPT
                             !.outputs = Some(produceOne(Get(afterInputs.outputs),
                                                         Get(buildingType.produces)))],
            threw |-> FALSE]
      ELSE [inventory |-> afterInputs, threw |-> FALSE]

\* Lines 36-39 once progress has reached 1: done is the outcome of
\* completeProductionCycle; the reset of line 38 is skipped when it threw.
finish(inited, progress, done) ==
  IF done.threw
  THEN [building |-> [inited EXCEPT !.productionProgress = Some(progress),
                                    !.inventory = Some(done.inventory)],
        threw |-> TRUE]
  ELSE [building |-> [inited EXCEPT !.productionProgress = Some(DblZero),
                                    !.inventory = Some(done.inventory)],
        threw |-> FALSE]

\* Lines 33-39 for a building that can produce: inited has its inventory and
\* progress, progress is the incremented productionProgress.
advance(inited, buildingType, progress) ==
  IF ~GeOne(progress)
  THEN [building |-> [inited EXCEPT !.productionProgress = Some(progress)],
        threw |-> FALSE]
  ELSE finish(inited, progress,
              completeProductionCycle(Get(inited.inventory), buildingType))

\* produce without the requirement check of lines 29-31.
produce_Unchecked(inited, buildingType) ==
  advance(inited, buildingType,
          JsAdd(inited.productionProgress, buildingType.productionSpeed))

\* Lines 18-43: inited is the building after the lazy initialisations.
produce(inited, buildingType) ==
  IF ~checkProductionRequirements(inited, buildingType)
  THEN [building |-> inited, threw |-> FALSE]
  ELSE advance(inited, buildingType,
               JsAdd(inited.productionProgress, buildingType.productionSpeed))

\* Lines 18-26: an absent inventory becomes {} and an absent progress 0.
initialise(building) ==
  [building EXCEPT
     !.inventory = IF IsDefined(@) THEN @
                   ELSE Some(Inventory(EmptyBucket, Undefined, Undefined)),
     !.productionProgress = IF IsDefined(@) THEN @ ELSE Some(DblZero)]

\* processFound without the productionSpeed === 0 test of line 16.
processFound_NoSpeedTest(building, found) ==
  IF ~IsDefined(found) THEN [building |-> building, threw |-> FALSE]
  ELSE produce(initialise(building), Get(found))

\* processFound without the !buildingType test of line 16: reading
\* productionSpeed of undefined throws.
processFound_NoTypeTest(building, found) ==
  IF ~IsDefined(found) THEN [building |-> building, threw |-> TRUE]
  ELSE IF Get(found).productionSpeed = Some(DblZero)
  THEN [building |-> building, threw |-> FALSE]
  ELSE produce(initialise(building), Get(found))

\* The body of the loop of updateBuildings for one building with the catalog
\* entry found for it: the building it leaves and whether it threw.
processFound(building, found) ==
  IF ~IsDefined(found) THEN [building |-> building, threw |-> FALSE]
  ELSE IF Get(found).productionSpeed = Some(DblZero)
  THEN [building |-> building, threw |-> FALSE]
  ELSE produce(initialise(building), Get(found))

processBuilding(cat, building) ==
  processFound(building, getBuildingType(cat, building.type))

\* updateBuildings from the i-th building in iteration order: the buildings
\* it leaves and the index of the building whose processing threw (0: none).
\* An exception leaves the loop.
RECURSIVE updateFrom(_, _, _)
\* step for buildings of one type that share one inventory object: what the
\* processing of the i-th wrote shows in every building of its type.
step_SharedInventory(cat, buildings, i, r) ==
  LET shared == [k \in 1..Len(buildings) |->
                   IF k = i THEN r.building
                   ELSE IF buildings[k].type = r.building.type
                   THEN [buildings[k] EXCEPT !.inventory = r.building.inventory]
                   ELSE buildings[k]]
  IN  IF r.threw THEN [buildings |-> shared, threw |-> i]
      ELSE updateFrom(cat, shared, i + 1)

step(cat, buildings, i, r) ==
  IF r.threw THEN [buildings |-> [buildings EXCEPT ![i] = r.building], threw |-> i]
  ELSE updateFrom(cat, [buildings EXCEPT ![i] = r.building], i + 1)

updateFrom(cat, buildings, i) ==
  IF i > Len(buildings) THEN [buildings |-> buildings, threw |-> 0]
  ELSE step(cat, buildings, i, processBuilding(cat, buildings[i]))

updateBuildings(cat, buildings) == updateFrom(cat, buildings, 1)

\* addResourceToBuilding that stores the amount instead of adding it.
addResourceToBuilding_Overwrite(building, resourceType, amount) ==
  LET inventory == IF IsDefined(building.inventory) THEN Get(building.inventory)
                   ELSE Inventory(EmptyBucket, Undefined, Undefined)
  IN  [building EXCEPT
         !.inventory = Some([inventory EXCEPT
                               !.top = Put(@, resourceType, Num(amount))])]

\* addResourceToBuilding
addResourceToBuilding(building, resourceType, amount) ==
  LET inventory == IF IsDefined(building.inventory) THEN Get(building.inventory)
                   ELSE Inventory(EmptyBucket, Undefined, Undefined)
      old == OrZero(Read(inventory.top, resourceType))
  IN  [building EXCEPT
         !.inventory = Some([inventory EXCEPT
                               !.top = Put(@, resourceType, Num(old + amount))])]

\* getBuildingNeeds: the list it returns and whether it threw a TypeError (a
\* property read on an undefined inventory, line 176).
RECURSIVE needsFrom(_, _, _)
needsFrom(inventory, reqs, i) ==
  IF i > Len(reqs) THEN <<>>
  ELSE LET available == OrZero(Read(inventory.top, reqs[i].type))
           needed == reqs[i].amount - available
       IN  (IF needed > 0
            THEN <<[type |-> reqs[i].type, amount |-> needed,
                    total |-> reqs[i].amount, available |-> available]>>
            ELSE <<>>) \o needsFrom(inventory, reqs, i + 1)

getBuildingNeeds(building, buildingType) ==
  IF ~IsDefined(buildingType.consumes) \/ Len(Get(buildingType.consumes)) = 0
  THEN [needs |-> <<>>, threw |-> FALSE]
  ELSE IF ~IsDefined(building.inventory)
  THEN [needs |-> <<>>, threw |-> TRUE]
  ELSE [needs |-> needsFrom(Get(building.inventory), Get(buildingType.consumes), 1),
        threw |-> FALSE]

(***************************************************************************)
(* Placement.  The placement handler creates the building record; the      *)
(* record either carries only its type and position (the inventory and     *)
(* the progress are then created by updateBuildings and                    *)
(* addResourceToBuilding on first use) or is created with the persisted    *)
(* shape {inventory: {inputs: {}, outputs: {}}, productionProgress: 0}.    *)
(***************************************************************************)
placeBuilding(type, preinit) ==
  IF preinit
  THEN Building(type, Some(Inventory(EmptyBucket, Some(EmptyBucket), Some(EmptyBucket))),
                Some(DblZero))
  ELSE Building(type, Undefined, Undefined)

\* A type id no catalog knows (a corrupt entry).
UnknownId == "windmill"

\* Catalog entries with missing recipe data, as a catalog loader may supply
\* them: an orchard that lacks its productionSpeed, and a depot that has an
\* id only.
ORCHARD == BuildingType("orchard", Some(Recipe("food", 1)), Some(<<>>), Undefined)
DEPOT == BuildingType("depot", Undefined, Undefined, Undefined)
LOADED_TYPES == BUILDING_TYPES \o <<ORCHARD, DEPOT>>

\* A catalog entry with two input requirements and a short cycle: a workshop
\* that turns 1 plank and 1 metal into 1 tool every 2 calls (speed 0.5).
Speed05 == Dbl(<<262144, 0, 0>>)
WORKSHOP ==
  BuildingType("workshop", Some(Recipe("tools", 1)),
               Some(<<Recipe("planks", 1), Recipe("metal", 1)>>), Some(Speed05))
CRAFT_TYPES == LOADED_TYPES \o <<WORKSHOP>>

\* The catalog a state names.
Types(cat) ==
  IF cat = "BUILDING_TYPES" THEN BUILDING_TYPES
  ELSE IF cat = "LOADED_TYPES" THEN LOADED_TYPES
  ELSE CRAFT_TYPES

\* The type ids the player places.  With the game's catalog: a gatherer of
\* each speed, the processor whose cycle fits in MaxTicks calls, the hub, and
\* the unknown id.  With the loaded catalog: the entries with missing data
\* and a sound one.  With the craft catalog: the workshop and the entry
\* without a consumes list.
PlaceIds(cat) ==
  IF cat = "BUILDING_TYPES"
  THEN {"farm", "lumberyard", "mine", "sawmill", "hub", UnknownId}
  ELSE IF cat = "LOADED_TYPES"
  THEN {"orchard", "depot", "sawmill"}
  ELSE {"workshop", "depot"}

\* The resource kinds a train delivers to a building: the inputs of its type,
\* and wood to the hub.
DepositKinds(cat, building) ==
  LET found == getBuildingType(cat, building.type)
      reqs == IF IsDefined(found) /\ IsDefined(Get(found).consumes)
              THEN Get(Get(found).consumes) ELSE <<>>
  IN  {reqs[j].type : j \in 1..Len(reqs)}
        \cup (IF building.type = "hub" THEN {"wood"} ELSE {})

(***************************************************************************)
(* The terrain generator (src/unnamed/part_002, lines 2159-2328).          *)
(***************************************************************************)
\* The state of the generator is an integer of magnitude below 2^32, held as
\* two limbs of 16 bits: state = state[1] * Half + state[2].  The limbs of a
\* negative state are both <= 0 (JavaScript's % keeps the sign of the
\* dividend, so a negative seed gives negative states).
Half == 65536

\* seededRandom(seed): the initial state, for -2^31 < seed < 2^31.
seededRandom(seed) ==
  IF seed >= 0 THEN <<seed \div Half, seed % Half>>
  ELSE <<-((-seed) \div Half), -((-seed) % Half)>>

IsNegative(state) == state[1] < 0 \/ state[2] < 0

\* (m * 1664525) % 4294967296 for a magnitude m, with
\* 1664525 = 25 * 2^16 + 26125.
timesMultiplier(m) ==
  LET low == m[2] * 26125
      high == ((m[1] * 26125) % Half) + m[2] * 25 + (low \div Half)
  IN  <<high % Half, low % Half>>

\* (a - 1013904223) modulo 4294967296, with 1013904223 = 15470 * 2^16 + 62303.
minusIncrement(a) ==
  LET low == a[2] - 62303
      borrow == IF low < 0 THEN 1 ELSE 0
  IN  <<(a[1] - 15470 - borrow) % Half, low % Half>>

\* state = (state * 1664525 + 1013904223) % 4294967296.  The sum is exact in
\* a double (below 2^53).  For a negative state of magnitude m the sum is
\* positive when m * 1664525 < 1013904223 (m < 610) and negative otherwise,
\* and the remainder has the sign of the sum.
nextState(state) ==
  IF ~IsNegative(state)
  THEN LET low == state[2] * 26125 + 62303
           high == ((state[1] * 26125) % Half) + state[2] * 25 + 15470 + (low \div Half)
       IN  <<high % Half, low % Half>>
  ELSE IF state[1] = 0 /\ -state[2] < 610
  THEN seededRandom(1013904223 - (-state[2]) * 1664525)
  ELSE LET magnitude == minusIncrement(timesMultiplier(<<-state[1], -state[2]>>))
       IN  <<-magnitude[1], -magnitude[2]>>

\* Math.floor((state / 4294967296) * n) for 0 < n <= 2^14: the product is
\* exact in a double; the floor of a negative product is minus the ceiling of
\* its magnitude.
floorTimes(state, n) ==
  IF ~IsNegative(state)
  THEN (state[1] * n + ((state[2] * n) \div Half)) \div Half
  ELSE LET high == (-state[1]) * n + (((-state[2]) * n) \div Half)
           low == ((-state[2]) * n) % Half
       IN  -((high \div Half) + (IF high % Half # 0 \/ low # 0 THEN 1 ELSE 0))

\* The array p with its properties: the elements p[0..255] and the
\* properties p[-256..-1] that a negative index creates.  A property the
\* code has not assigned reads undefined, held as NoElement.
NoElement == -1
Keys == 256
Slot(k) == k + Keys + 1

\* [p[i], p[j]] = [p[j], p[i]]
swap(p, i, j) == [p EXCEPT ![Slot(i)] = p[Slot(j)], ![Slot(j)] = p[Slot(i)]]

\* One iteration of the Fisher-Yates loop of generatePermutationTable:
\* j = Math.floor(rng() * (i + 1)), then the swap.  loop holds the array p and
\* the generator's state.
shuffleStep(loop, i, state) ==
  [p |-> swap(loop.p, i, floorTimes(state, i + 1)), state |-> state]

\* The iterations of the loop for the indices from hi down to lo, the range
\* being split in halves (the first half is evaluated before the second).
RECURSIVE shuffleRange(_, _, _)
shuffleRange(loop, hi, lo) ==
  IF hi = lo THEN shuffleStep(loop, hi, nextState(loop.state))
  ELSE CHOOSE done \in {shuffleRange(half, ((hi + lo + 1) \div 2) - 1, lo) :
                          half \in {shuffleRange(loop, hi, (hi + lo + 1) \div 2)}} : TRUE

\* generatePermutationTable(seed): [...p, ...p], the spread taking the
\* elements p[0..255] only.
generatePermutationTable(seed) ==
  LET p == shuffleRange([p |-> [k \in 1..(2 * Keys) |->
                                  IF k > Keys THEN k - Keys - 1 ELSE NoElement],
                         state |-> seededRandom(seed)],
                        255, 1).p
      elements == SubSeq(p, Keys + 1, 2 * Keys)
  IN  elements \o elements

(***************************************************************************)
(* Noise values and the coordinates passed to the noise functions are      *)
(* fixed-point numbers: integers in units of 1 / Unit.  The doubles of the *)
(* source are rounded down to that grid after every multiplication.        *)
(*   scale        is held in hundredths (8 is 0.08),                       *)
(*   percentages  are held in tenths of a percent (325 is 32.5).           *)
(***************************************************************************)
Unit == 1024

\* fade(t) = t * t * t * (t * (t * 6 - 15) + 10)
fade(t) ==
  LET inner == (((t * 6 - 15 * Unit) * t) \div Unit) + 10 * Unit
      cube == (((t * t) \div Unit) * t) \div Unit
  IN  (cube * inner) \div Unit

\* lerp(t, a, b) = a + t * (b - a)
lerp(t, a, b) == a + ((t * (b - a)) \div Unit)

\* grad(hash, x, y)
grad(hash, x, y) ==
  LET h == hash % 8
      u == IF h < 4 THEN x ELSE y
      v == IF h < 4 THEN y ELSE x
  IN  (IF h % 2 = 0 THEN u ELSE -u) + (IF (h \div 2) % 2 = 0 THEN v ELSE -v)

\* permutation[k] for a 0-based index k.
at(perm, k) == perm[k + 1]

\* The body of perlin2D once the cell (X, Y) and the offsets (x, y) in it are
\* known.
perlinCell(perm, X, Y, x, y, u, v) ==
  LET a == at(perm, X) + Y
      b == at(perm, X + 1) + Y
  IN  lerp(v,
           lerp(u, grad(at(perm, at(perm, a)), x, y),
                   grad(at(perm, at(perm, b)), x - Unit, y)),
           lerp(u, grad(at(perm, at(perm, a + 1)), x, y - Unit),
                   grad(at(perm, at(perm, b + 1)), x - Unit, y - Unit)))

\* perlin2D(x, y) over the table perm, for x, y >= 0.
perlin2D(perm, x, y) ==
  perlinCell(perm, (x \div Unit) % 256, (y \div Unit) % 256,
             x % Unit, y % Unit, fade(x % Unit), fade(y % Unit))

\* The loop of multiOctaveNoise from octave i on: the pair <<value, maxValue>>.
RECURSIVE octavesFrom(_, _, _, _, _, _, _)
octavesFrom(perm, x, y, octaves, i, amplitude, frequency) ==
  IF i >= octaves THEN <<0, 0>>
  ELSE LET rest == octavesFrom(perm, x, y, octaves, i + 1, amplitude \div 2, frequency * 2)
       IN  <<((perlin2D(perm, x * frequency, y * frequency) * amplitude) \div Unit) + rest[1],
             amplitude + rest[2]>>

\* Math.max(-1, Math.min(1, normalized / 0.7))
stretch(normalized) ==
  LET s == (normalized * 10) \div 7
  IN  IF s > Unit THEN Unit ELSE IF s < -Unit THEN -Unit ELSE s

\* multiOctaveNoise(x, y, octaves), for octaves >= 1.
multiOctaveNoise(perm, x, y, octaves) ==
  LET sum == octavesFrom(perm, x, y, octaves, 0, Unit, 1)
  IN  stretch((sum[1] * Unit) \div sum[2])

(***************************************************************************)
(* The configuration: a record with the fields seed, scale, octaves, the   *)
(* five percentages and the four thresholds; a threshold is an optional    *)
(* noise value (undefined when read past the end of the sample array).     *)
(***************************************************************************)
Config(seed, scale, octaves, water, sand, grass, forest, mountain) ==
  [seed |-> seed, scale |-> scale, octaves |-> octaves,
   waterPercent |-> water, sandPercent |-> sand, grassPercent |-> grass,
   forestPercent |-> forest, mountainPercent |-> mountain,
   sandThreshold |-> Undefined, grassThreshold |-> Undefined,
   forestThreshold |-> Undefined, mountainThreshold |-> Undefined]

\* The literal of lines 2163-2172.
DefaultConfig == Config(12345, 8, 4, 325, 250, 100, 100, 225)

\* One iteration of the loop of sampleNoiseDistribution: sx and sy are the
\* generator's states after the draws of x and y; x * config.scale is
\* (state / 2^32) * 100 * (scale / 100).
sampleStep(perm, cfg, loop, sx, sy) ==
  [values |-> Append(loop.values,
                     multiOctaveNoise(perm, floorTimes(sx, cfg.scale * Unit),
                                      floorTimes(sy, cfg.scale * Unit),
                                      cfg.octaves)),
   state |-> sy]

\* n iterations of the loop, the range being split in halves.
RECURSIVE sampleRange(_, _, _, _)
sampleRange(perm, cfg, loop, n) ==
  IF n <= 0 THEN loop
  ELSE IF n = 1
  THEN sampleStep(perm, cfg, loop, nextState(loop.state),
                  nextState(nextState(loop.state)))
  ELSE CHOOSE done \in {sampleRange(perm, cfg, half, n - (n \div 2)) :
                          half \in {sampleRange(perm, cfg, loop, n \div 2)}} : TRUE

\* noiseValues.sort((a, b) => a - b), by insertion: sorted holds the first
\* i - 1 values in ascending order.
insert(sorted, v) ==
  LET k == Cardinality({i \in 1..Len(sorted) : sorted[i] <= v})
  IN  SubSeq(sorted, 1, k) \o <<v>> \o SubSeq(sorted, k + 1, Len(sorted))

RECURSIVE sortFrom(_, _, _)
sortFrom(values, i, sorted) ==
  IF i > Len(values) THEN sorted
  ELSE sortFrom(values, i + 1, insert(sorted, values[i]))

sort(values) == sortFrom(values, 1, <<>>)

\* sampleNoiseDistribution(samples) with the table perm and the seed
\* worldSeed in force.
sampleNoiseDistribution(perm, cfg, worldSeed, samples) ==
  sort(sampleRange(perm, cfg, [values |-> <<>>, state |-> seededRandom(worldSeed)],
                   samples).values)

\* noiseValues[Math.floor(fraction * total)], the fraction in thousandths.
percentile(noiseValues, end) ==
  LET index == (end * Len(noiseValues)) \div 1000
  IN  IF index >= 0 /\ index < Len(noiseValues) THEN Some(noiseValues[index + 1])
      ELSE Undefined

\* Lines 2289-2301 for the sorted samples noiseValues.
thresholdsFrom(cfg, noiseValues) ==
  [cfg EXCEPT
     !.sandThreshold = percentile(noiseValues, cfg.waterPercent),
     !.grassThreshold =
        percentile(noiseValues, cfg.waterPercent + cfg.sandPercent),
     !.forestThreshold =
        percentile(noiseValues,
                   cfg.waterPercent + cfg.sandPercent + cfg.grassPercent),
     !.mountainThreshold =
        percentile(noiseValues,
                   cfg.waterPercent + cfg.sandPercent + cfg.grassPercent
                     + cfg.forestPercent)]

\* The seeds of the runs.
Seeds == {7, 12345}

\* The seeds of the surveys.
SurveySeeds == {5, 12345}

\* The tables of the seeds of the runs, computed once.
tables == [seed \in Seeds \cup SurveySeeds |-> generatePermutationTable(seed)]

\* generatePermutationTable(seed), looked up for a seed whose table is known.
tableOf(seed) ==
  IF seed \in DOMAIN tables THEN tables[seed] ELSE generatePermutationTable(seed)

\* calculateThresholdsFromPercentages() with config and WORLD_SEED as given;
\* the table in force is the one of WORLD_SEED (lines 2201-2202 assign both).
calculateThresholdsFromPercentages(cfg, worldSeed) ==
  thresholdsFrom(cfg,
                 sampleNoiseDistribution(tableOf(worldSeed), cfg, worldSeed, Samples))

\* The number of samples of a calibration in the source (the default of the
\* parameter of sampleNoiseDistribution, line 2271).
SampleCount == 10000

\* The number of samples that are <= v.
rank(noiseValues, v) ==
  Cardinality({i \in 1..Len(noiseValues) : noiseValues[i] <= v})

\* The element at index k (0-based) of the samples in ascending order: the
\* least value v of lo..hi that has more than k samples <= v.
RECURSIVE leastWithRank(_, _, _, _)
leastWithRank(noiseValues, k, lo, hi) ==
  IF lo = hi THEN lo
  ELSE IF rank(noiseValues, (lo + hi) \div 2) > k
  THEN leastWithRank(noiseValues, k, lo, (lo + hi) \div 2)
  ELSE leastWithRank(noiseValues, k, ((lo + hi) \div 2) + 1, hi)

\* noiseValues[Math.floor(fraction * total)] after the sort of line 2282,
\* for samples that are not held sorted.
percentileOfSamples(noiseValues, end) ==
  LET index == (end * Len(noiseValues)) \div 1000
  IN  IF index >= 0 /\ index < Len(noiseValues)
      THEN Some(leastWithRank(noiseValues, index, -Unit, Unit))
      ELSE Undefined

\* Lines 2289-2301 for samples that are not held sorted.
thresholdsFromSamples(cfg, noiseValues) ==
  [cfg EXCEPT
     !.sandThreshold = percentileOfSamples(noiseValues, cfg.waterPercent),
     !.grassThreshold =
        percentileOfSamples(noiseValues, cfg.waterPercent + cfg.sandPercent),
     !.forestThreshold =
        percentileOfSamples(noiseValues,
                            cfg.waterPercent + cfg.sandPercent + cfg.grassPercent),
     !.mountainThreshold =
        percentileOfSamples(noiseValues,
                            cfg.waterPercent + cfg.sandPercent + cfg.grassPercent
                              + cfg.forestPercent)]

\* calculateThresholdsFromPercentages() with the source's number of samples.
calibrate(cfg, worldSeed) ==
  CHOOSE calibrated \in
    {thresholdsFromSamples(cfg, noiseValues) :
       noiseValues \in
         {sampleRange(tableOf(worldSeed), cfg,
                      [values |-> <<>>, state |-> seededRandom(worldSeed)],
                      SampleCount).values}} : TRUE

\* initPermutation(): the config and the WORLD_SEED it leaves.
initPermutation(cfg) ==
  [config |-> calculateThresholdsFromPercentages(cfg, cfg.seed),
   WORLD_SEED |-> cfg.seed]

\* Object.assign(config, newConfig)
assign(cfg, newConfig) ==
  [f \in (DOMAIN cfg) \cup (DOMAIN newConfig) |->
     IF f \in DOMAIN newConfig THEN newConfig[f] ELSE cfg[f]]

\* updateConfig that never rebuilds the permutation table.
updateConfig_NoRebuild(cfg, worldSeed, newConfig) ==
  [config |-> calculateThresholdsFromPercentages(assign(cfg, newConfig), worldSeed),
   WORLD_SEED |-> worldSeed]

\* updateConfig(newConfig): the config and the WORLD_SEED it leaves.
updateConfig(cfg, worldSeed, newConfig) ==
  IF "seed" \in DOMAIN newConfig
  THEN initPermutation(assign(cfg, newConfig))
  ELSE [config |-> calculateThresholdsFromPercentages(assign(cfg, newConfig), worldSeed),
        WORLD_SEED |-> worldSeed]

\* getConfig that hands out the configuration object itself.
getConfig_Live(cfg) == [live |-> TRUE, object |-> cfg]

\* getConfig(): { ...config }, a new object that holds a copy of every field
\* (each field is a number).  live tells whether the object handed out is the
\* generator's own configuration object.
getConfig(cfg) == [live |-> FALSE, object |-> cfg]

\* The terrain kinds (the TERRAIN argument of generateTerrain).
TERRAIN ==
  [WATER |-> "water", SAND |-> "sand", GRASS |-> "grass", FOREST |-> "forest",
   MOUNTAIN |-> "mountain"]

\* noiseValue < threshold: false for an undefined threshold.
Below(noiseValue, threshold) == IsDefined(threshold) /\ noiseValue < Get(threshold)

\* A cascade that tests grassThreshold before sandThreshold.
classify_GrassFirst(cfg, noiseValue) ==
  IF Below(noiseValue, cfg.grassThreshold) THEN TERRAIN.SAND
  ELSE IF Below(noiseValue, cfg.sandThreshold) THEN TERRAIN.WATER
  ELSE IF Below(noiseValue, cfg.forestThreshold) THEN TERRAIN.GRASS
  ELSE IF Below(noiseValue, cfg.mountainThreshold) THEN TERRAIN.FOREST
  ELSE TERRAIN.MOUNTAIN

\* Lines 2308-2312.
classify(cfg, noiseValue) ==
  IF Below(noiseValue, cfg.sandThreshold) THEN TERRAIN.WATER
  ELSE IF Below(noiseValue, cfg.grassThreshold) THEN TERRAIN.SAND
  ELSE IF Below(noiseValue, cfg.forestThreshold) THEN TERRAIN.GRASS
  ELSE IF Below(noiseValue, cfg.mountainThreshold) THEN TERRAIN.FOREST
  ELSE TERRAIN.MOUNTAIN

\* generateTerrain(col, row, TERRAIN) with the configuration cfg and the table
\* perm in force, for col, row >= 0; col * config.scale is col * scale / 100.
generateTerrain(cfg, perm, col, row) ==
  classify(cfg, multiOctaveNoise(perm, (col * cfg.scale * Unit) \div 100,
                                 (row * cfg.scale * Unit) \div 100, cfg.octaves))

(***************************************************************************)
(* The control panel (createTerrainControls).  handles holds the style.left *)
(* of the four slider handles, in tenths of a percent.                     *)
(***************************************************************************)
\* updateAllHandlePositions(), and the template of lines 2500-2509.
handlePositions(cfg) ==
  [sand |-> cfg.waterPercent,
   grass |-> cfg.waterPercent + cfg.sandPercent,
   forest |-> cfg.waterPercent + cfg.sandPercent + cfg.grassPercent,
   mountain |-> cfg.waterPercent + cfg.sandPercent + cfg.grassPercent
                  + cfg.forestPercent]

Max(a, b) == IF a > b THEN a ELSE b
Min(a, b) == IF a < b THEN a ELSE b

\* The position the mousemove handler passes to setHandlePosition (lines
\* 2636-2668): Math.max(minPos, Math.min(maxPos, position)) after the clamp to
\* 0..100; 1 percent is 10 tenths.
clampPosition(pos, terrain, position) ==
  LET inside == Max(0, Min(1000, position))
      minPos == IF terrain = "grass" THEN pos.sand + 10
                ELSE IF terrain = "forest" THEN pos.grass + 10
                ELSE IF terrain = "mountain" THEN pos.forest + 10
                ELSE 10
      maxPos == IF terrain = "sand" THEN pos.grass - 10
                ELSE IF terrain = "grass" THEN pos.forest - 10
                ELSE IF terrain = "forest" THEN pos.mountain - 10
                ELSE 990
  IN  Max(minPos, Min(maxPos, inside))

\* The switch of setHandlePosition (lines 2596-2612).
movedPercentages(cfg, pos, terrain, position) ==
  IF terrain = "sand"
  THEN [cfg EXCEPT !.waterPercent = position, !.sandPercent = pos.grass - position]
  ELSE IF terrain = "grass"
  THEN [cfg EXCEPT !.sandPercent = position - pos.sand,
                   !.grassPercent = pos.forest - position]
  ELSE IF terrain = "forest"
  THEN [cfg EXCEPT !.grassPercent = position - pos.grass,
                   !.forestPercent = pos.mountain - position]
  ELSE [cfg EXCEPT !.forestPercent = position - pos.forest]

\* setHandlePosition(handle, position) up to line 2616: the config with the
\* percentages it sets.
setHandlePosition(cfg, pos, terrain, position) ==
  LET moved == movedPercentages(cfg, pos, terrain, position)
  IN  [moved EXCEPT !.mountainPercent =
         1000 - (moved.waterPercent + moved.sandPercent + moved.grassPercent
                   + moved.forestPercent)]

\* The presets of lines 2702-2739.
Preset(scale, octaves, water, sand, grass, forest, mountain) ==
  [scale |-> scale, octaves |-> octaves, waterPercent |-> water,
   sandPercent |-> sand, grassPercent |-> grass, forestPercent |-> forest,
   mountainPercent |-> mountain]

presets ==
  [archipelago |-> Preset(12, 5, 450, 150, 150, 150, 100),
   pangaea |-> Preset(5, 3, 250, 200, 250, 200, 100),
   chaotic |-> Preset(15, 6, 300, 200, 200, 150, 150),
   forest |-> Preset(8, 4, 200, 100, 150, 400, 150)]

\* The permutation table in force: lines 2201-2202 are the only assignments
\* to WORLD_SEED and to permutation.
permutation == tableOf(WORLD_SEED)

(***************************************************************************)
(* The slider in double arithmetic.  Where the last bit of a percentage    *)
(* matters, the five percentages of config and the four positions of       *)
(* handles are doubles, held as limbs in units of 2^-53 percent: every     *)
(* double from 2^-53 to 128 is a whole number of these units.              *)
(***************************************************************************)
\* The double n of an integer literal n (1, 99, 100), and the double of a
\* literal given in tenths that is a multiple of 0.5 (32.5, 22.5, 45).
Percent(n) == <<n * 2048, 0, 0>>
FromTenths(tenths) == <<(tenths * 2048) \div 10, 0, 0>>

\* Math.max(a, b) and Math.min(a, b) of two doubles.
MathMax(a, b) == IF DoubleLess(a, b) THEN b ELSE a
MathMin(a, b) == IF DoubleLess(b, a) THEN b ELSE a

PercentFields ==
  {"waterPercent", "sandPercent", "grassPercent", "forestPercent",
   "mountainPercent"}

\* A configuration whose percentages are literals, with them as doubles.
inDoubles(cfg) ==
  [f \in DOMAIN cfg |-> IF f \in PercentFields THEN FromTenths(cfg[f]) ELSE cfg[f]]

\* updateAllHandlePositions(): p1 = waterPercent, p2 = p1 + sandPercent, ...
\* each sum rounded; style.left = p + '%' and parseFloat give p back.
doublePositions(cfg) ==
  LET p1 == cfg.waterPercent
      p2 == DoubleAdd(p1, cfg.sandPercent)
      p3 == DoubleAdd(p2, cfg.grassPercent)
      p4 == DoubleAdd(p3, cfg.forestPercent)
  IN  [sand |-> p1, grass |-> p2, forest |-> p3, mountain |-> p4]

\* Lines 2636-2668 of the mousemove handler on doubles.
clampDouble(pos, terrain, position) ==
  LET inside == MathMax(Percent(0), MathMin(Percent(100), position))
      minPos == IF terrain = "grass" THEN DoubleAdd(pos.sand, Percent(1))
                ELSE IF terrain = "forest" THEN DoubleAdd(pos.grass, Percent(1))
                ELSE IF terrain = "mountain" THEN DoubleAdd(pos.forest, Percent(1))
                ELSE Percent(1)
      maxPos == IF terrain = "sand" THEN DoubleSub(pos.grass, Percent(1))
                ELSE IF terrain = "grass" THEN DoubleSub(pos.forest, Percent(1))
                ELSE IF terrain = "forest" THEN DoubleSub(pos.mountain, Percent(1))
                ELSE Percent(99)
  IN  MathMax(minPos, MathMin(maxPos, inside))

\* The switch of setHandlePosition (lines 2596-2612) on doubles.
movedDoubles(cfg, pos, terrain, position) ==
  IF terrain = "sand"
  THEN [cfg EXCEPT !.waterPercent = position,
                   !.sandPercent = DoubleSub(pos.grass, position)]
  ELSE IF terrain = "grass"
  THEN [cfg EXCEPT !.sandPercent = DoubleSub(position, pos.sand),
                   !.grassPercent = DoubleSub(pos.forest, position)]
  ELSE IF terrain = "forest"
  THEN [cfg EXCEPT !.grassPercent = DoubleSub(position, pos.grass),
                   !.forestPercent = DoubleSub(pos.mountain, position)]
  ELSE [cfg EXCEPT !.forestPercent = DoubleSub(position, pos.forest)]

\* waterPercent + sandPercent + grassPercent + forestPercent of line 2615.
usedPercent(cfg) ==
  DoubleAdd(DoubleAdd(DoubleAdd(cfg.waterPercent, cfg.sandPercent),
                      cfg.grassPercent), cfg.forestPercent)

\* setHandlePosition(handle, position) up to line 2616 on doubles.
setHandleDouble(cfg, pos, terrain, position) ==
  LET moved == movedDoubles(cfg, pos, terrain, position)
  IN  [moved EXCEPT !.mountainPercent = DoubleSub(Percent(100), usedPercent(moved))]

\* Math.floor(end * total) for the cumulative percentage cumulative: the
\* floor of cumulative * total / 100, the double product taken as exact.
indexOfDouble(cumulative, total) ==
  (Normalize(cumulative[1] * total, cumulative[2] * total,
             cumulative[3] * total)[1] \div 2048) \div 100

elementAt(noiseValues, index) ==
  IF index >= 0 /\ index < Len(noiseValues) THEN Some(noiseValues[index + 1])
  ELSE Undefined

\* calculateThresholdsFromPercentages() for percentages that are doubles.
calibrateDoubles(cfg, worldSeed) ==
  LET noiseValues ==
        sampleNoiseDistribution(tableOf(worldSeed), cfg, worldSeed, Samples)
      ends == doublePositions(cfg)
  IN  [cfg EXCEPT
         !.sandThreshold =
            elementAt(noiseValues, indexOfDouble(ends.sand, Samples)),
         !.grassThreshold =
            elementAt(noiseValues, indexOfDouble(ends.grass, Samples)),
         !.forestThreshold =
            elementAt(noiseValues, indexOfDouble(ends.forest, Samples)),
         !.mountainThreshold =
            elementAt(noiseValues, indexOfDouble(ends.mountain, Samples))]

\* The positions the mouse gives on a slider 300 pixels wide, as
\* ((clientX - left) / width) * 100: 0 and 100 at its ends,
\* 7.333333333333333 at pixel 22 and 33.33333333333333 at pixel 100.
AtPixel22 == <<15018, 1398101, 699048>>
AtPixel100 == <<68266, 1398101, 699008>>
MousePositions == {Percent(0), AtPixel22, AtPixel100, Percent(100)}

\* The values typed into the seed input, moved to on the scale and octaves
\* sliders, and the positions the mouse drags a handle to (tenths of a
\* percent of the slider's width).
SeedInputs == Seeds
ScaleInputs == {10}
OctavesInputs == {2}
DragPositions == {0, 500}
HandleNames == {"sand", "grass", "forest", "mountain"}
PresetNames == {"archipelago", "pangaea", "chaotic", "forest"}

\* The objects callers pass to updateConfig: one field, a set of percentages
\* that leaves no sand, one that leaves no mountain, or the object getConfig
\* returned.
NewConfigs ==
  {[seed |-> 7], [seed |-> 12345], [scale |-> 10], [octaves |-> 2],
   [waterPercent |-> 500, sandPercent |-> 0, grassPercent |-> 200,
    forestPercent |-> 200, mountainPercent |-> 100],
   [waterPercent |-> 250, sandPercent |-> 250, grassPercent |-> 250,
    forestPercent |-> 250, mountainPercent |-> 0]}
    \cup (IF IsDefined(held) THEN {Get(held).object} ELSE {})

\* What a caller writes into the object getConfig returned.
SnapshotWrites == {<<"seed", 7>>, <<"scale", 10>>, <<"waterPercent", 0>>}

\* The module after its initialisation (line 2206) and createTerrainControls.
TerrainLoaded ==
  /\ \E loaded \in {initPermutation(DefaultConfig)} :
       /\ config = loaded.config
       /\ WORLD_SEED = loaded.WORLD_SEED
  /\ handles = handlePositions(DefaultConfig)
  /\ held = Undefined
  /\ taken = Undefined
  /\ lastOp = [op |-> "load", newConfig |-> <<>>, config |-> DefaultConfig,
               WORLD_SEED |-> 12345]
  /\ calls = 0

\* generatePermutationTable has not been called by a caller of its own: the
\* only table is the one of the module's initialisation.
TableNotCalled ==
  /\ tableSeed = DefaultConfig.seed
  /\ table = <<>>

(***************************************************************************)
(* The initial track loop (src/initialSetup.js) and the neighbours of a    *)
(* hex (src/hexUtils.js).                                                  *)
(***************************************************************************)
Hex(col, row) == [col |-> col, row |-> row]

\* a % b of JavaScript for b > 0: the remainder has the sign of a.
Remainder(a, b) == IF a >= 0 THEN a % b ELSE -((-a) % b)

\* getNeighbor(col, row, side), for side in 0..5 (1-based in the tuples).
getNeighbor(col, row, side) ==
  LET isEven == Remainder(col, 2) = 0
      neighbors ==
        IF isEven
        THEN <<Hex(col + 1, row), Hex(col, row + 1), Hex(col - 1, row),
               Hex(col - 1, row - 1), Hex(col, row - 1), Hex(col + 1, row - 1)>>
        ELSE <<Hex(col + 1, row + 1), Hex(col, row + 1), Hex(col - 1, row + 1),
               Hex(col - 1, row), Hex(col, row - 1), Hex(col + 1, row)>>
  IN  neighbors[side + 1]

\* createEdgeKey(col1, row1, col2, row2): the two hexes ordered by column,
\* then by row; the string `edge_c_r_c_r` is held as the tuple of its numbers.
createEdgeKey(col1, row1, col2, row2) ==
  IF col1 < col2 \/ (col1 = col2 /\ row1 <= row2)
  THEN <<"edge", col1, row1, col2, row2>>
  ELSE <<"edge", col2, row2, col1, row1>>

Segment(col1, row1, col2, row2) == [hex1 |-> Hex(col1, row1), hex2 |-> Hex(col2, row2)]

\* The array of lines 35-59.
trackSegments ==
  <<Segment(0, -2, 1, -2), Segment(1, -2, 2, -1),
    Segment(2, -1, 2, 0), Segment(2, 0, 2, 1),
    Segment(2, 1, 1, 2), Segment(1, 2, 0, 2),
    Segment(0, 2, -1, 2), Segment(-1, 2, -2, 1),
    Segment(-2, 1, -2, 0), Segment(-2, 0, -2, -1),
    Segment(-2, -1, -1, -2), Segment(-1, -2, 0, -2)>>

OBJECT_TYPES == [TRACK |-> "track"]

Track(hex1, hex2, placedAt) ==
  [type |-> OBJECT_TYPES.TRACK, hex1 |-> hex1, hex2 |-> hex2, placedAt |-> placedAt]

\* objects[edgeKey] = { ... }
SetObject(objs, edgeKey, object) ==
  [k \in (DOMAIN objs) \cup {edgeKey} |-> IF k = edgeKey THEN object ELSE objs[k]]

\* The forEach of lines 62-76 from segment i on; now is Date.now().
RECURSIVE placeSegments(_, _, _)
placeSegments(objs, i, now) ==
  IF i > Len(trackSegments) THEN objs
  ELSE placeSegments(
         SetObject(objs,
                   createEdgeKey(trackSegments[i].hex1.col, trackSegments[i].hex1.row,
                                 trackSegments[i].hex2.col, trackSegments[i].hex2.row),
                   Track(trackSegments[i].hex1, trackSegments[i].hex2, now)),
         i + 1, now)

\* initialSetup(map, objects, TERRAIN, OBJECT_TYPES): the objects it leaves.
initialSetup(objs, now) == placeSegments(objs, 1, now)

NoObjects == [k \in {} |-> Track(Hex(0, 0), Hex(0, 0), 0)]

\* initialSetup has not been called and the map holds no object.
SetupNotRun ==
  /\ objects = NoObjects
  /\ setupAt = Undefined

(***************************************************************************)
(* Saved games (SaveGameManager of savegame.js).  A string the code        *)
(* inspects is a sequence of characters.  localStorage holds the item      *)
(* stored under storageKey: nothing, or the text JSON.stringify made of    *)
(* the saves, modelled as the set of the entries it lists.                 *)
(***************************************************************************)
MaxClock == 10

\* String.prototype.trim on blanks.
RECURSIVE trimStart(_)
trimStart(text) ==
  IF text # <<>> /\ text[1] = " " THEN trimStart(Tail(text)) ELSE text

RECURSIVE trimEnd(_)
trimEnd(text) ==
  IF text # <<>> /\ text[Len(text)] = " "
  THEN trimEnd(SubSeq(text, 1, Len(text) - 1)) ELSE text

trim(text) == trimEnd(trimStart(text))

\* Number.prototype.toString of a non-negative integer.
Digits == <<"0", "1", "2", "3", "4", "5", "6", "7", "8", "9">>

RECURSIVE toString(_)
toString(n) ==
  IF n < 10 THEN <<Digits[n + 1]>>
  ELSE toString(n \div 10) \o <<Digits[(n % 10) + 1]>>

\* The literal of lines 398-403.
SaveEntry(id, name, timestamp, state) ==
  [id |-> id, name |-> name, timestamp |-> timestamp, state |-> state]

\* JSON.stringify(saves) and JSON.parse(text) for an object saves keyed by
\* save id.
stringify(saves) == {<<k, saves[k]>> : k \in DOMAIN saves}
parse(text) ==
  [k \in {pair[1] : pair \in text} |->
     (CHOOSE pair \in text : pair[1] = k)[2]]

\* getAllSaves(): the item parsed, or {} when there is none.
getAllSaves(item) == IF IsDefined(item) THEN parse(Get(item)) ELSE parse({})

\* saves[saveId] = entry, and delete saves[saveId].
SetSave(saves, saveId, entry) ==
  [k \in (DOMAIN saves) \cup {saveId} |-> IF k = saveId THEN entry ELSE saves[k]]
DeleteKey(saves, saveId) == [k \in (DOMAIN saves) \ {saveId} |-> saves[k]]

\* The content of the saveMessage element: the text (with the name it
\* quotes, if any) and the class showMessage gives it.
Message(text, name, type) == [text |-> text, name |-> name, type |-> type]
NoMessage == Message("", <<>>, "")

\* The element after showMessage(text, type): whatever it showed is replaced.
showMessage(message, text, name, type) == Message(text, name, type)

\* The element after saveAllSaves(saves): showMessage runs in its catch
\* clause only (lines 356-359).
afterWrite(message, written) ==
  IF written THEN message
  ELSE showMessage(message, "Error saving to storage", <<>>, "error")

\* captureGameState(): the fields of the game state the model holds.
captureGameState(buildings) ==
  [placed_buildings |-> buildings, buildingCount |-> Len(buildings)]

\* saveGame() with the trimmed name saveName: idAt and stampAt are the two
\* values of Date.now() (lines 396 and 401), written tells whether setItem
\* succeeded.  The result is the item stored and the message displayed.
saveGame(item, message, name, state, idAt, stampAt, written) ==
  LET saves == getAllSaves(item)
      saveId == toString(idAt)
      added == SetSave(saves, saveId, SaveEntry(saveId, name, stampAt, state))
  IN  [item |-> IF written THEN Some(stringify(added)) ELSE item,
       message |-> showMessage(afterWrite(message, written),
                               "Game saved as", name, "success")]

\* deleteSave(saveId) once confirmed.
deleteSave(item, message, saveId, written) ==
  LET saves == getAllSaves(item)
      saveNameOf == IF saveId \in DOMAIN saves THEN saves[saveId].name
                    ELSE <<"U", "n", "k", "n", "o", "w", "n">>
      left == DeleteKey(saves, saveId)
  IN  [item |-> IF written THEN Some(stringify(left)) ELSE item,
       message |-> showMessage(afterWrite(message, written),
                               "Deleted", saveNameOf, "success")]

\* The saves dialog has not been opened and nothing is stored.
NothingSaved ==
  /\ localStorage = Undefined
  /\ saveMessage = NoMessage
  /\ saveName = <<>>
  /\ clock = MaxClock - 1
  /\ lastSave = [op |-> "none", before |-> Undefined, name |-> <<>>,
                 written |-> FALSE]

\* No tile has been surveyed.
FiveKinds == {"water", "sand", "grass", "forest", "mountain"}

NotSurveyed ==
  /\ surveyRow = 0
  /\ tally = [kind \in FiveKinds |-> 0]

(***************************************************************************)
(* The state machine.                                                      *)
(*   catalog           the name of the catalog in force (it never changes) *)
(*   placed_buildings  gameState.placed_buildings in iteration order       *)
(*   lastCall          the last updateBuildings call: the buildings before *)
(*                     and after it, and the index of the building whose   *)
(*                     processing threw (0: the call returned)             *)
(*   ticks             the number of updateBuildings calls made            *)
(*   age               per building, the calls made since it was placed    *)
(*   deposits          the number of addResourceToBuilding calls made      *)
(*   config            the configuration object of the terrain generator   *)
(*   WORLD_SEED        the seed of the permutation table in force          *)
(*   handles           the positions of the four slider handles            *)
(*   held              the object the last getConfig call returned         *)
(*   taken             config and WORLD_SEED as they were when that call   *)
(*                     returned                                            *)
(*   lastOp            the last handler of the terrain module that ran,    *)
(*                     its argument, and config and WORLD_SEED before it   *)
(*   calls             the number of terrain handlers that ran             *)
(*   tableSeed         the argument of a call of generatePermutationTable  *)
(*   table             the table the call returned (empty before the call) *)
(*   surveyRow         the number of rows of the grid surveyed             *)
(*   tally             per kind, the number of tiles of that kind found    *)
(*   objects           the objects of the map, by edge key                 *)
(*   setupAt           the time of the initialSetup call (undefined before *)
(*                     the call)                                           *)
(***************************************************************************)
NothingPlaced(cat) ==
  /\ catalog = cat
  /\ placed_buildings = <<>>
  /\ lastCall = [before |-> <<>>, after |-> <<>>, threw |-> 0]
  /\ ticks = 0
  /\ age = <<>>
  /\ deposits = 0

InitWith(cat) ==
  /\ NothingPlaced(cat)
  /\ TerrainLoaded
  /\ TableNotCalled
  /\ NotSurveyed
  /\ SetupNotRun
  /\ NothingSaved

Init == InitWith("BUILDING_TYPES")

InitLoaded == InitWith("LOADED_TYPES")

InitCraft == InitWith("CRAFT_TYPES")

PlaceBuilding ==
  /\ Len(placed_buildings) < MaxBuildings
  /\ ticks < PlaceWindow
  /\ \E type \in PlaceIds(catalog), preinit \in BOOLEAN :
       /\ placed_buildings' = Append(placed_buildings, placeBuilding(type, preinit))
       /\ age' = Append(age, 0)
  /\ UNCHANGED <<catalog, lastCall, ticks, deposits, outsideProduction>>

AddResource ==
  /\ deposits < MaxDeposits
  /\ ticks < DepositWindow
  /\ \E i \in 1..Len(placed_buildings), amount \in 1..MaxAmount :
     \E kind \in DepositKinds(Types(catalog), placed_buildings[i]) :
       placed_buildings' =
         [placed_buildings EXCEPT ![i] = addResourceToBuilding(@, kind, amount)]
  /\ deposits' = deposits + 1
  /\ UNCHANGED <<catalog, lastCall, ticks, age, outsideProduction>>

\* One interval callback of startBuildingProductionLoop: updateBuildings(gameState).
Tick ==
  /\ ticks < MaxTicks
  /\ LET r == updateBuildings(Types(catalog), placed_buildings)
     IN  /\ placed_buildings' = r.buildings
         /\ lastCall' = [before |-> placed_buildings, after |-> r.buildings,
                         threw |-> r.threw]
  /\ ticks' = ticks + 1
  /\ age' = [i \in 1..Len(age) |-> age[i] + 1]
  /\ UNCHANGED <<catalog, deposits, outsideProduction>>

Next == PlaceBuilding \/ AddResource \/ Tick

Spec == Init /\ [][Next]_vars

\* The same machine over a catalog that holds entries with missing data.
SpecLoaded == InitLoaded /\ [][Next]_vars

\* The same machine over a catalog that holds a two-input recipe.
SpecCraft == InitCraft /\ [][Next]_vars

\* A handler of the terrain module runs: op names it, newConfig is the
\* argument of updateConfig (empty for the other handlers); config and
\* WORLD_SEED are kept as the handler found them.
Handled(op, newConfig) ==
  /\ calls < MaxCalls
  /\ calls' = calls + 1
  /\ lastOp' = [op |-> op, newConfig |-> newConfig, config |-> config,
                WORLD_SEED |-> WORLD_SEED]
  /\ UNCHANGED outsideTerrain

\* updateConfig(newConfig)
UpdateConfig ==
  \E newConfig \in NewConfigs :
    /\ Handled("updateConfig", newConfig)
    /\ \E updated \in {updateConfig(config, WORLD_SEED, newConfig)} :
         /\ config' = updated.config
         /\ WORLD_SEED' = updated.WORLD_SEED
    /\ UNCHANGED <<handles, held, taken>>

\* getConfig(), the caller keeping the object returned.
GetConfig ==
  /\ Handled("getConfig", <<>>)
  /\ held' = Some(getConfig(config))
  /\ taken' = Some([config |-> config, WORLD_SEED |-> WORLD_SEED])
  /\ UNCHANGED <<config, WORLD_SEED, handles>>

\* The caller assigns to a field of the object getConfig returned.
WriteSnapshot ==
  /\ IsDefined(held)
  /\ Handled("writeSnapshot", <<>>)
  /\ \E w \in SnapshotWrites :
       /\ Get(held).object[w[1]] # w[2]
       /\ held' = Some([Get(held) EXCEPT !.object[w[1]] = w[2]])
       /\ config' = IF Get(held).live THEN [config EXCEPT ![w[1]] = w[2]] ELSE config
  /\ UNCHANGED <<WORLD_SEED, handles, taken>>

\* The input handler of the seed field (lines 2684-2687).
SeedInput ==
  /\ Handled("seedInput", <<>>)
  /\ \E seed \in SeedInputs : config' = [config EXCEPT !.seed = seed]
  /\ UNCHANGED <<WORLD_SEED, handles, held, taken>>

\* The input handler of the scale slider (lines 2689-2693).
ScaleInput ==
  /\ Handled("scaleInput", <<>>)
  /\ \E scale \in ScaleInputs :
       config' = calculateThresholdsFromPercentages([config EXCEPT !.scale = scale],
                                                    WORLD_SEED)
  /\ UNCHANGED <<WORLD_SEED, handles, held, taken>>

\* The input handler of the octaves slider (lines 2695-2699).
OctavesInput ==
  /\ Handled("octavesInput", <<>>)
  /\ \E octaves \in OctavesInputs :
       config' = calculateThresholdsFromPercentages([config EXCEPT !.octaves = octaves],
                                                    WORLD_SEED)
  /\ UNCHANGED <<WORLD_SEED, handles, held, taken>>

\* The mousemove handler while a handle is dragged (lines 2632-2670), with
\* setHandlePosition (lines 2586-2622).
MouseMove ==
  /\ Handled("mouseMove", <<>>)
  /\ \E terrain \in HandleNames, position \in DragPositions :
       LET moved == setHandlePosition(config, handles, terrain,
                                      clampPosition(handles, terrain, position))
       IN  /\ handles' = handlePositions(moved)
           /\ config' = calculateThresholdsFromPercentages(moved, WORLD_SEED)
  /\ UNCHANGED <<WORLD_SEED, held, taken>>

\* The click handler of a preset button (lines 2741-2760), which ends in the
\* click handler of the regenerate button.
PresetClick ==
  /\ Handled("presetClick", <<>>)
  /\ \E name \in PresetNames :
     \E regenerated \in {initPermutation(assign(config, presets[name]))} :
       /\ handles' = handlePositions(regenerated.config)
       /\ config' = regenerated.config
       /\ WORLD_SEED' = regenerated.WORLD_SEED
  /\ UNCHANGED <<held, taken>>

\* The click handler of the regenerate button (lines 2763-2766).
RegenerateClick ==
  /\ Handled("regenerateClick", <<>>)
  /\ \E regenerated \in {initPermutation(config)} :
       /\ config' = regenerated.config
       /\ WORLD_SEED' = regenerated.WORLD_SEED
  /\ UNCHANGED <<handles, held, taken>>

NextTerrain ==
  \/ UpdateConfig
  \/ GetConfig
  \/ WriteSnapshot
  \/ SeedInput
  \/ ScaleInput
  \/ OctavesInput
  \/ MouseMove
  \/ PresetClick
  \/ RegenerateClick

\* The terrain generator and its control panel.
SpecTerrain == Init /\ [][NextTerrain]_vars

\* The module and its control panel after initialisation, the percentages
\* and the handle positions as doubles.
InitSlider ==
  /\ NothingPlaced("BUILDING_TYPES")
  /\ \E loaded \in {initPermutation(DefaultConfig)} :
       /\ config = inDoubles(loaded.config)
       /\ WORLD_SEED = loaded.WORLD_SEED
  /\ handles = doublePositions(inDoubles(DefaultConfig))
  /\ held = Undefined
  /\ taken = Undefined
  /\ lastOp = [op |-> "load", newConfig |-> <<>>, config |-> inDoubles(DefaultConfig),
               WORLD_SEED |-> 12345]
  /\ calls = 0
  /\ TableNotCalled
  /\ NotSurveyed
  /\ SetupNotRun
  /\ NothingSaved

\* The mousemove handler while a handle is dragged (lines 2632-2670), with
\* setHandlePosition (lines 2586-2622), on doubles.
DragHandle ==
  /\ Handled("mouseMove", <<>>)
  /\ \E terrain \in HandleNames, position \in MousePositions :
       LET moved == setHandleDouble(config, handles, terrain,
                                    clampDouble(handles, terrain, position))
       IN  /\ handles' = doublePositions(moved)
           /\ config' = calibrateDoubles(moved, WORLD_SEED)
  /\ UNCHANGED <<WORLD_SEED, held, taken>>

\* The click handler of a preset button (lines 2741-2760) and of the
\* regenerate button it clicks, on doubles.
SelectPreset ==
  /\ Handled("presetClick", <<>>)
  /\ \E name \in PresetNames :
       LET assigned == assign(config, inDoubles(presets[name]))
       IN  /\ handles' = doublePositions(assigned)
           /\ config' = calibrateDoubles(assigned, assigned.seed)
           /\ WORLD_SEED' = assigned.seed
  /\ UNCHANGED <<held, taken>>

NextSlider == DragHandle \/ SelectPreset

\* Preset selections and handle drags after the module's initialisation.
SpecSlider == InitSlider /\ [][NextSlider]_vars

\* The seeds generatePermutationTable is called with: small ones, the ones
\* around -610 (where the first sum of the generator changes sign), the
\* default one and the ends of the 32-bit range.
TableSeeds ==
  (0..20) \cup ((-625)..(-595)) \cup {12345, -12345, 2147483647, -2147483647}

InitTable ==
  /\ NothingPlaced("BUILDING_TYPES")
  /\ TerrainLoaded
  /\ tableSeed \in TableSeeds
  /\ table = <<>>
  /\ NotSurveyed
  /\ SetupNotRun
  /\ NothingSaved

\* generatePermutationTable(tableSeed)
GenerateTable ==
  /\ table = <<>>
  /\ table' = generatePermutationTable(tableSeed)
  /\ UNCHANGED <<tableSeed, outsideTable>>

NextTable == GenerateTable

\* Calls of generatePermutationTable, one per seed.
SpecTable == InitTable /\ [][NextTable]_vars

\* The presets a survey is made under.
SurveyPresets == {"archipelago", "pangaea", "forest"}

\* The module after its initialisation, the seed input and a preset button
\* (which ends in initPermutation), calibrated with the source's number of
\* samples; no tile surveyed yet.
InitSurvey ==
  /\ NothingPlaced("BUILDING_TYPES")
  /\ TableNotCalled
  /\ NotSurveyed
  /\ SetupNotRun
  /\ NothingSaved
  /\ \E name \in SurveyPresets, seed \in SurveySeeds :
       /\ config = calibrate(assign([DefaultConfig EXCEPT !.seed = seed],
                                    presets[name]), seed)
       /\ WORLD_SEED = seed
       /\ handles = handlePositions(presets[name])
       /\ lastOp = [op |-> "presetClick", newConfig |-> <<>>,
                    config |-> [DefaultConfig EXCEPT !.seed = seed],
                    WORLD_SEED |-> seed]
  /\ held = Undefined
  /\ taken = Undefined
  /\ calls = 0

\* generateTerrain(col, row, TERRAIN) for the columns lo..hi of a row, each
\* tile counted under its kind; the range is split in halves.
RECURSIVE countRange(_, _, _, _, _, _)
countRange(counts, cfg, perm, row, lo, hi) ==
  IF lo = hi
  THEN [counts EXCEPT ![generateTerrain(cfg, perm, lo, row)] = @ + 1]
  ELSE CHOOSE done \in
         {countRange(half, cfg, perm, row, ((lo + hi) \div 2) + 1, hi) :
            half \in {countRange(counts, cfg, perm, row, lo, (lo + hi) \div 2)}} : TRUE

\* The next row of the grid is surveyed.
SurveyRow ==
  /\ surveyRow < SurveySize
  /\ tally' = countRange(tally, config, permutation, surveyRow, 0, SurveySize - 1)
  /\ surveyRow' = surveyRow + 1
  /\ UNCHANGED outsideSurvey

NextSurvey == SurveyRow

\* A survey of the terrain kinds over a grid, under a preset.
SpecSurvey == InitSurvey /\ [][NextSurvey]_vars

\* Tracks the objects may hold when initialSetup is called (placed at time
\* 0), two of them on edges of the loop.
EarlierTracks ==
  {Segment(0, -2, 1, -2), Segment(1, -2, 2, -1), Segment(0, 0, 1, 0),
   Segment(0, 0, 0, 1), Segment(3, 0, 3, 1), Segment(-1, 0, 0, 0),
   Segment(5, 5, 5, 6)}

RECURSIVE withTracks(_, _)
withTracks(objs, segments) ==
  IF segments = {} THEN objs
  ELSE LET segment == CHOOSE x \in segments : TRUE
       IN  withTracks(SetObject(objs,
                                createEdgeKey(segment.hex1.col, segment.hex1.row,
                                              segment.hex2.col, segment.hex2.row),
                                Track(segment.hex1, segment.hex2, 0)),
                      segments \ {segment})

\* The values Date.now() returns during the call.
SetupTimes == {1, 2}

InitSetup ==
  /\ NothingPlaced("BUILDING_TYPES")
  /\ TerrainLoaded
  /\ TableNotCalled
  /\ NotSurveyed
  /\ \E earlier \in SUBSET EarlierTracks : objects = withTracks(NoObjects, earlier)
  /\ setupAt = Undefined
  /\ NothingSaved

\* initialSetup(map, objects, TERRAIN, OBJECT_TYPES)
InitialSetup ==
  /\ ~IsDefined(setupAt)
  /\ \E now \in SetupTimes :
       /\ objects' = initialSetup(objects, now)
       /\ setupAt' = Some(now)
  /\ UNCHANGED <<buildingVars, terrainVars, tableVars, surveyVars, saveVars>>

NextSetup == InitialSetup

\* The call of initialSetup on a map that may hold tracks.
SpecSetup == InitSetup /\ [][NextSetup]_vars

\* The names typed into the saveName input.
NameInputs == {<<>>, <<" ">>, <<"a">>, <<"b", " ">>}

\* Date.now(): the clock does not run backwards, and within a run it stays
\* at or below MaxClock.
Later(from) == {now \in from..(from + 1) : now <= MaxClock}

Logged(op, name, written) ==
  lastSave' = [op |-> op, before |-> localStorage, name |-> name,
               written |-> written]

\* The player types into the saveName input.
TypeName ==
  /\ \E typed \in NameInputs : typed # saveName /\ saveName' = typed
  /\ Logged("type", <<>>, FALSE)
  /\ UNCHANGED <<localStorage, saveMessage, clock>>
  /\ UNCHANGED <<buildingVars, terrainVars, tableVars, surveyVars, setupVars>>

\* show() (lines 327-333)
Show ==
  /\ saveName' = <<>>
  /\ saveMessage' = NoMessage
  /\ Logged("show", <<>>, FALSE)
  /\ UNCHANGED <<localStorage, clock>>
  /\ UNCHANGED <<buildingVars, terrainVars, tableVars, surveyVars, setupVars>>

\* saveGame() (lines 379-412)
SaveGame ==
  /\ IF trim(saveName) = <<>>
     THEN /\ saveMessage' = showMessage(saveMessage, "Please enter a save name",
                                       <<>>, "error")
          /\ Logged("saveGame", <<>>, FALSE)
          /\ UNCHANGED <<localStorage, saveName, clock>>
     ELSE \E idAt \in Later(clock), written \in BOOLEAN :
          \E stampAt \in Later(idAt) :
            LET saved == saveGame(localStorage, saveMessage, trim(saveName),
                                  captureGameState(placed_buildings), idAt,
                                  stampAt, written)
            IN  /\ localStorage' = saved.item
                /\ saveMessage' = saved.message
                /\ saveName' = <<>>
                /\ clock' = stampAt
                /\ Logged("saveGame", trim(saveName), written)
  /\ UNCHANGED <<buildingVars, terrainVars, tableVars, surveyVars, setupVars>>

\* deleteSave(saveId) (lines 439-450) from a Delete button of the list.
DeleteSave ==
  /\ \E saveId \in DOMAIN getAllSaves(localStorage), confirmed, written \in BOOLEAN :
       IF confirmed
       THEN LET deleted == deleteSave(localStorage, saveMessage, saveId, written)
            IN  /\ localStorage' = deleted.item
                /\ saveMessage' = deleted.message
                /\ Logged("deleteSave", <<>>, written)
       ELSE /\ Logged("deleteSave", <<>>, FALSE)
            /\ UNCHANGED <<localStorage, saveMessage>>
  /\ UNCHANGED <<saveName, clock>>
  /\ UNCHANGED <<buildingVars, terrainVars, tableVars, surveyVars, setupVars>>

NextSave == TypeName \/ Show \/ SaveGame \/ DeleteSave

\* The save dialog.
SpecSave == Init /\ [][NextSave]_vars

(***************************************************************************)
(* What an observer reads of a building: a building without an inventory   *)
(* (or without a sub-bucket) holds no quantity, and one without a          *)
(* productionProgress has made no progress.                                *)
(***************************************************************************)
Top(b) == IF IsDefined(b.inventory) THEN Get(b.inventory).top ELSE EmptyBucket

Inputs(b) ==
  IF IsDefined(b.inventory) /\ IsDefined(Get(b.inventory).inputs)
  THEN Get(Get(b.inventory).inputs) ELSE EmptyBucket

Outputs(b) ==
  IF IsDefined(b.inventory) /\ IsDefined(Get(b.inventory).outputs)
  THEN Get(Get(b.inventory).outputs) ELSE EmptyBucket

Progress(b) ==
  IF IsDefined(b.productionProgress) THEN Get(b.productionProgress) ELSE DblZero

\* The stock of a kind that deposits fill and the requirement check reads.
Stock(b, kind) == IF kind \in DOMAIN Top(b) /\ IsNum(Top(b)[kind]) THEN Top(b)[kind].n ELSE 0

\* The quantity of a kind held for pickup.
Held(b, kind) ==
  IF kind \in DOMAIN Outputs(b) /\ IsNum(Outputs(b)[kind]) THEN Outputs(b)[kind].n ELSE 0

SameQuantities(a, b) ==
  Top(a) = Top(b) /\ Inputs(a) = Inputs(b) /\ Outputs(a) = Outputs(b)

Known(b) == IsDefined(getBuildingType(Types(catalog), b.type))
TypeOf(b) == Get(getBuildingType(Types(catalog), b.type))
Requirements(b) ==
  IF Known(b) /\ IsDefined(TypeOf(b).consumes) THEN Get(TypeOf(b).consumes) ELSE <<>>

Starved(b) ==
  \E j \in 1..Len(Requirements(b)) :
    Stock(b, Requirements(b)[j].type) < Requirements(b)[j].amount

Called == ticks > 0
Before == lastCall.before
After == lastCall.after
Placed == 1..Len(lastCall.before)

\* 0 <= a < 1 for a double a (no double of the model is negative).
InUnitInterval(a) == a.k = "num" /\ a.m[1] < DblOne.m[1]

\* The i-th building was reached by the last call: no earlier one threw.
Reached(i) == lastCall.threw = 0 \/ lastCall.threw >= i

\* The sequence without its i-th element.
Without(seq, i) == [j \in 1..(Len(seq) - 1) |-> IF j < i THEN seq[j] ELSE seq[j + 1]]

(***************************************************************************)
(* C1.  After every updateBuildings call, every building's                 *)
(* productionProgress is a number p with 0 <= p < 1.                       *)
(***************************************************************************)
C1_ProgressInUnitInterval ==
  Called =>
    \A i \in Placed :
      IsDefined(After[i].productionProgress)
        => InUnitInterval(Get(After[i].productionProgress))

NonNegative(bucket) == \A k \in DOMAIN bucket : IsNum(bucket[k]) /\ bucket[k].n >= 0

(***************************************************************************)
(* C2.  Every quantity stored in a building's inventory, in any of its     *)
(* buckets, is a number >= 0.                                              *)
(***************************************************************************)
C2_QuantitiesNonNegative ==
  \A i \in 1..Len(placed_buildings) :
    /\ NonNegative(Top(placed_buildings[i]))
    /\ NonNegative(Inputs(placed_buildings[i]))
    /\ NonNegative(Outputs(placed_buildings[i]))

Completing(b) ==
  /\ Known(b)
  /\ TypeOf(b).productionSpeed # Some(DblZero)
  /\ ~Starved(b)
  /\ GeOne(JsAdd(Some(Progress(b)), TypeOf(b).productionSpeed))

InputsConsumed(i) ==
  \A j \in 1..Len(Requirements(Before[i])) :
    LET req == Requirements(Before[i])[j]
    IN  Stock(After[i], req.type) = Stock(Before[i], req.type) - req.amount

OutputAdded(i) ==
  LET out == Get(TypeOf(Before[i]).produces)
  IN  Held(After[i], out.type) = Held(Before[i], out.type) + out.amount

(***************************************************************************)
(* C4.  On the call in which a building with input requirements crosses    *)
(* progress 1, the stock of each required input (the one deposits fill and *)
(* the requirement check reads) goes down by the required amount and the   *)
(* output goes up by produces.amount.                                      *)
(***************************************************************************)
C4_CompletionConsumesDeposits ==
  \A i \in Placed :
    (Len(Requirements(Before[i])) > 0 /\ Completing(Before[i]) /\ Reached(i))
      => InputsConsumed(i) /\ OutputAdded(i)

ProgressReset(i) == Progress(After[i]) = DblZero /\ Progress(Before[i]) # DblZero

(***************************************************************************)
(* C5.  In every call, for every building that produces something, either  *)
(* all required inputs are consumed, the output is added and the progress  *)
(* is reset to 0, or no quantity changes and the progress is not reset.    *)
(***************************************************************************)
C5_CompletionAtomic ==
  \A i \in Placed :
    (Known(Before[i]) /\ IsDefined(TypeOf(Before[i]).produces))
      => \/ InputsConsumed(i) /\ OutputAdded(i) /\ ProgressReset(i)
         \/ SameQuantities(After[i], Before[i]) /\ ~ProgressReset(i)

\* n * m >= 1 in exact arithmetic, m a double in units of 2^-61.
TimesReachesOne(m, n) == Normalize(m[1] * n, m[2] * n, m[3] * n)[1] >= DblOne.m[1]

\* n = ceil(1 / m)
IsCeilOfInverse(m, n) == n >= 1 /\ TimesReachesOne(m, n) /\ ~TimesReachesOne(m, n - 1)

Gatherer(b) ==
  /\ Known(b)
  /\ Len(Requirements(b)) = 0
  /\ IsDefined(TypeOf(b).produces)
  /\ IsDefined(TypeOf(b).productionSpeed)
  /\ Get(TypeOf(b).productionSpeed).k = "num"
  /\ TypeOf(b).productionSpeed # Some(DblZero)

\* The building was placed with inventory {inputs, outputs} and progress 0.
PlacedAtZero(b) == IsDefined(b.inventory) /\ IsDefined(Get(b.inventory).inputs)

(***************************************************************************)
(* C6.  A building without input requirements, of speed s, placed with     *)
(* progress 0, completes its first cycle on call ceil(1/s) exactly: after  *)
(* fewer calls nothing has been produced, and after that call the progress *)
(* is 0 and produces.amount units are held.  Stated of the building first  *)
(* in iteration order, which every call reaches.                           *)
(***************************************************************************)
C6_FirstCycleOnCeilTick ==
  (Called /\ Len(After) >= 1 /\ Gatherer(After[1]) /\ PlacedAtZero(After[1]))
    => LET speed == Get(TypeOf(After[1]).productionSpeed).m
           out == Get(TypeOf(After[1]).produces)
       IN  /\ ~TimesReachesOne(speed, age[1]) => Held(After[1], out.type) = 0
           /\ IsCeilOfInverse(speed, age[1])
                => /\ Progress(After[1]) = DblZero
                   /\ Held(After[1], out.type) = out.amount

(***************************************************************************)
(* C7.  An updateBuildings call leaves a building whose type has           *)
(* productionSpeed 0 exactly as it was: its progress and its inventory     *)
(* never change through calls.                                             *)
(***************************************************************************)
C7_ZeroSpeedUntouched ==
  \A i \in Placed :
    (Known(Before[i]) /\ TypeOf(Before[i]).productionSpeed = Some(DblZero))
      => After[i] = Before[i]

\* A hub that holds delivered wood went through two calls or more.
C7_Witness ==
  /\ ticks >= 2
  /\ \E i \in Placed : Before[i].type = "hub" /\ Stock(Before[i], "wood") >= 1

(***************************************************************************)
(* C8.  An updateBuildings call leaves a building of unknown type as it    *)
(* was and does not throw on it, and the other buildings end the call as   *)
(* they end a call on the same buildings without the unknown one.          *)
(***************************************************************************)
C8_UnknownTypeSkipped ==
  \A i \in Placed :
    ~Known(Before[i])
      => LET alone == updateBuildings(Types(catalog), Without(Before, i))
         IN  /\ After[i] = Before[i]
             /\ lastCall.threw # i
             /\ Without(After, i) = alone.buildings
             /\ (lastCall.threw = 0) = (alone.threw = 0)

\* A call went past a building of unknown type and changed the next one.
C8_Witness ==
  /\ Called
  /\ Len(Before) = 2
  /\ ~Known(Before[1])
  /\ After[2] # Before[2]
  /\ Progress(After[2]) # Progress(Before[2])

(***************************************************************************)
(* C9.  When the processing of a building throws during a call, the other  *)
(* buildings end the call as they end a call on the same buildings without *)
(* the failing one.                                                        *)
(***************************************************************************)
C9_FailureIsolated ==
  \A i \in Placed :
    lastCall.threw = i
      => Without(After, i) = updateBuildings(Types(catalog), Without(Before, i)).buildings

Processed(i) ==
  /\ Reached(i)
  /\ Known(Before[i])
  /\ TypeOf(Before[i]).productionSpeed # Some(DblZero)

\* Every requirement of b's type is in stock.
AllInStock(b) ==
  \A j \in 1..Len(Requirements(b)) :
    Stock(b, Requirements(b)[j].type) >= Requirements(b)[j].amount

Shortage(b, req) ==
  [type |-> req.type, amount |-> req.amount - Stock(b, req.type),
   total |-> req.amount, available |-> Stock(b, req.type)]

\* needs holds exactly one entry per requirement of b that is short, and no
\* other entry.
ListsShortages(b, needs) ==
  /\ \A j \in 1..Len(Requirements(b)) :
       LET req == Requirements(b)[j]
       IN  Cardinality({k \in 1..Len(needs) : needs[k].type = req.type})
             = (IF Stock(b, req.type) < req.amount THEN 1 ELSE 0)
  /\ \A k \in 1..Len(needs) :
       /\ needs[k].amount > 0
       /\ \E j \in 1..Len(Requirements(b)) : needs[k] = Shortage(b, Requirements(b)[j])

(***************************************************************************)
(* C12.  For every placed building of a known type, ticked or supplied or  *)
(* neither, getBuildingNeeds returns without throwing one entry per        *)
(* requirement that is short, with its deficit > 0, the required and the   *)
(* available amount; the list is empty exactly when every requirement is   *)
(* in stock.                                                               *)
(***************************************************************************)
C12_NeedsOfEveryPlaced ==
  \A i \in 1..Len(placed_buildings) :
    Known(placed_buildings[i])
      => LET b == placed_buildings[i]
             r == getBuildingNeeds(b, TypeOf(b))
         IN  /\ ~r.threw
             /\ ListsShortages(b, r.needs)
             /\ (r.needs = <<>>) = AllInStock(b)

\* Every resource kind of the model.
Kinds == {"food", "wood", "ore", "stone", "planks", "metal", "tools"}

\* The step is addResourceToBuilding(placed_buildings[i], kind, amount) as far
\* as the building's quantities and progress show: the stock of kind goes up
\* by amount, and nothing else of the building changes.
DepositedOnly(i, kind, amount) ==
  LET old == placed_buildings[i]
      new == placed_buildings'[i]
  IN  /\ Stock(new, kind) = Stock(old, kind) + amount
      /\ \A other \in Kinds \ {kind} : Stock(new, other) = Stock(old, other)
      /\ DOMAIN Top(new) = DOMAIN Top(old) \cup {kind}
      /\ Inputs(new) = Inputs(old)
      /\ Outputs(new) = Outputs(old)
      /\ new.productionProgress = old.productionProgress
      /\ IsDefined(old.inventory)
           => /\ Get(new.inventory).inputs = Get(old.inventory).inputs
              /\ Get(new.inventory).outputs = Get(old.inventory).outputs

Exchanged(seq, i, j) ==
  [k \in 1..Len(seq) |-> IF k = i THEN seq[j] ELSE IF k = j THEN seq[i] ELSE seq[k]]

(***************************************************************************)
(* C14.  Every building ends an updateBuildings call in the same state     *)
(* whatever the order of iteration: a call on the same buildings with two  *)
(* of them exchanged in the iteration order leaves each building as the    *)
(* call made left it.                                                      *)
(***************************************************************************)
C14_OrderIndependent ==
  \A i, j \in Placed :
    i < j => updateBuildings(Types(catalog), Exchanged(Before, i, j)).buildings
               = Exchanged(After, i, j)

\* The step is a call in which the i-th building completes a cycle.
CompletesIn(i) == ticks' = ticks + 1 /\ Completing(placed_buildings[i])

\* The step is a deposit into the i-th building.
DepositsInto(i) == deposits' = deposits + 1 /\ placed_buildings'[i] # placed_buildings[i]

\* The step leaves the j-th building as a step is allowed to that does not
\* take another building's state into account: as it was, or, on a call, as
\* the processing of that building alone leaves it.
OwnOutcome(j) ==
  \/ placed_buildings'[j] = placed_buildings[j]
  \/ /\ ticks' = ticks + 1
     /\ placed_buildings'[j]
          = processBuilding(Types(catalog), placed_buildings[j]).building

GridCols == 3
GridRows == 3
Grid == (0..GridCols) \X (0..GridRows)

\* The kind generateTerrain returns for every coordinate of the grid, with
\* the configuration cfg and the table of worldSeed in force.
KindsWith(cfg, worldSeed) ==
  [c \in Grid |-> generateTerrain(cfg, tableOf(worldSeed), c[1], c[2])]

\* The seed, scale, octaves and percentages of a configuration.
Settings(cfg) ==
  <<cfg.seed, cfg.scale, cfg.octaves, cfg.waterPercent, cfg.sandPercent,
    cfg.grassPercent, cfg.forestPercent, cfg.mountainPercent>>

Ran(op) == calls > 0 /\ lastOp.op = op

(***************************************************************************)
(* C16.  For a fixed seed, scale, octaves and percentages generateTerrain  *)
(* returns the same kind for a coordinate on every call: a handler that    *)
(* leaves these settings as they were (a re-application of the same        *)
(* configuration) leaves the kind of every coordinate as it was.           *)
(***************************************************************************)
C16_SameKindOnEveryCall ==
  (calls > 0 /\ Settings(config) = Settings(lastOp.config))
    => KindsWith(config, WORLD_SEED) = KindsWith(lastOp.config, lastOp.WORLD_SEED)

\* The thresholds that are numbers, in ascending order of their names.
StrictlyIncreasing(cfg) ==
  /\ IsDefined(cfg.sandThreshold)
  /\ IsDefined(cfg.grassThreshold)
  /\ IsDefined(cfg.forestThreshold)
  /\ IsDefined(cfg.mountainThreshold)
  /\ Get(cfg.sandThreshold) < Get(cfg.grassThreshold)
  /\ Get(cfg.grassThreshold) < Get(cfg.forestThreshold)
  /\ Get(cfg.forestThreshold) < Get(cfg.mountainThreshold)

SumsTo100(cfg) ==
  cfg.waterPercent + cfg.sandPercent + cfg.grassPercent + cfg.forestPercent
    + cfg.mountainPercent = 1000

(***************************************************************************)
(* C17.  After every calibration with five percentages that sum to 100,    *)
(* sandThreshold < grassThreshold < forestThreshold < mountainThreshold.   *)
(***************************************************************************)
C17_ThresholdsStrictlyIncreasing ==
  SumsTo100(config) => StrictlyIncreasing(config)

\* The last updateConfig call recalibrated the thresholds: config is the
\* calibration of the assigned configuration under the seed now in force.
Recalibrated ==
  config = calculateThresholdsFromPercentages(assign(lastOp.config, lastOp.newConfig),
                                              WORLD_SEED)

C19_NothingStale ==
  /\ permutation = tableOf(config.seed)
  /\ config = calculateThresholdsFromPercentages(config, config.seed)

(***************************************************************************)
(* C20.  The object getConfig returns is a snapshot: a write to one of its *)
(* fields leaves the generator's configuration, its thresholds and its     *)
(* permutation table as they were, and with them the kind generateTerrain  *)
(* returns for every coordinate and the fields a later getConfig returns.  *)
(***************************************************************************)
C20_SnapshotIsDetached ==
  Ran("writeSnapshot")
    => /\ config = lastOp.config
       /\ WORLD_SEED = lastOp.WORLD_SEED
       /\ permutation = tableOf(lastOp.WORLD_SEED)
       /\ KindsWith(config, WORLD_SEED) = KindsWith(lastOp.config, lastOp.WORLD_SEED)
       /\ getConfig(config).object = lastOp.config

\* The caller changed the seed and then the scale of the object it holds,
\* which now differs from the configuration in both.
C20_Witness ==
  /\ Ran("writeSnapshot")
  /\ calls = 3
  /\ Get(held).object.seed # config.seed
  /\ Get(held).object.scale # config.scale

(***************************************************************************)
(* C21.  For every integer seed the table generatePermutationTable returns *)
(* has exactly 512 entries, its entries 0..255 hold each of the values     *)
(* 0..255 exactly once, and entry i + 256 equals entry i.                  *)
(***************************************************************************)
C21_TableIsDoubledPermutation ==
  table # <<>>
    => /\ Len(table) = 512
       /\ {table[i] : i \in 1..256} = 0..255
       /\ \A i \in 1..256 : table[i + 256] = table[i]

\* The noise value generateTerrain computes for the coordinate c (line 2306).
NoiseOf(cfg, worldSeed, c) ==
  multiOctaveNoise(tableOf(worldSeed), (c[1] * cfg.scale * Unit) \div 100,
                   (c[2] * cfg.scale * Unit) \div 100, cfg.octaves)

\* kind is the one the thresholds of cfg give the noise value n, taken in
\* ascending order.
ByThresholds(cfg, n, kind) ==
  /\ kind \in FiveKinds
  /\ kind = "water" <=> Below(n, cfg.sandThreshold)
  /\ kind = "sand" <=> ~Below(n, cfg.sandThreshold) /\ Below(n, cfg.grassThreshold)
  /\ kind = "grass" <=>
       /\ ~Below(n, cfg.sandThreshold)
       /\ ~Below(n, cfg.grassThreshold)
       /\ Below(n, cfg.forestThreshold)
  /\ kind = "forest" <=>
       /\ ~Below(n, cfg.sandThreshold)
       /\ ~Below(n, cfg.grassThreshold)
       /\ ~Below(n, cfg.forestThreshold)
       /\ Below(n, cfg.mountainThreshold)
  /\ kind = "mountain" <=>
       /\ ~Below(n, cfg.sandThreshold)
       /\ ~Below(n, cfg.grassThreshold)
       /\ ~Below(n, cfg.forestThreshold)
       /\ ~Below(n, cfg.mountainThreshold)

(***************************************************************************)
(* C22.  In every state and for every coordinate generateTerrain returns   *)
(* exactly one of the five kinds: WATER if the noise value is below        *)
(* sandThreshold, otherwise SAND if it is below grassThreshold, otherwise  *)
(* GRASS if below forestThreshold, otherwise FOREST if below               *)
(* mountainThreshold, otherwise MOUNTAIN.                                  *)
(***************************************************************************)
C22_ClassifiesByThresholds ==
  \A c \in Grid :
    ByThresholds(config, NoiseOf(config, WORLD_SEED, c),
                 generateTerrain(config, permutation, c[1], c[2]))

\* After a handler ran, the grid holds tiles of all five kinds.
C22_Witness ==
  /\ calls > 0
  /\ {KindsWith(config, WORLD_SEED)[c] : c \in Grid} = FiveKinds

\* The last call was updateConfig(c), c being the object a getConfig call
\* returned, as it was returned.
Restored ==
  /\ Ran("updateConfig")
  /\ IsDefined(taken)
  /\ lastOp.newConfig = Get(taken).config

(***************************************************************************)
(* C23.  If c is what getConfig returned in some state, then after any     *)
(* further configuration changes updateConfig(c) makes generateTerrain     *)
(* return, for every coordinate, the kind it returned in the state where c *)
(* was taken.                                                              *)
(***************************************************************************)
C23_RegenerableFromConfig ==
  Restored
    => KindsWith(config, WORLD_SEED)
         = KindsWith(Get(taken).config, Get(taken).WORLD_SEED)

\* The percentage (in tenths) configured for a kind.
Configured(cfg, kind) ==
  IF kind = "water" THEN cfg.waterPercent
  ELSE IF kind = "sand" THEN cfg.sandPercent
  ELSE IF kind = "grass" THEN cfg.grassPercent
  ELSE IF kind = "forest" THEN cfg.forestPercent
  ELSE cfg.mountainPercent

\* The tiles of a survey.
Tiles == SurveySize * SurveySize

\* The proportion of the kind among the tiles surveyed is within tenths
\* tenths of a percentage point of its configured percentage:
\* |1000 * tally / Tiles - configured| <= tenths.
WithinTolerance(kind, tenths) ==
  /\ 1000 * tally[kind] - Configured(config, kind) * Tiles <= tenths * Tiles
  /\ Configured(config, kind) * Tiles - 1000 * tally[kind] <= tenths * Tiles

(***************************************************************************)
(* C24.  Under a calibrated configuration of one of the presets            *)
(* 45/15/15/15/10, 25/20/25/20/10 and 20/10/15/40/15, the proportion of    *)
(* each of the five kinds generateTerrain returns over the whole grid is   *)
(* within 3 percentage points of the configured percentage.                *)
(***************************************************************************)
C24_ProportionsConverge ==
  surveyRow = SurveySize => \A kind \in FiveKinds : WithinTolerance(kind, 30)

\* The keys of the objects the call of initialSetup placed.
PlacedBySetup ==
  {k \in DOMAIN objects : objects[k].placedAt = Get(setupAt)}

Adjacent(hex1, hex2) ==
  \E side \in 0..5 : getNeighbor(hex1.col, hex1.row, side) = hex2

(***************************************************************************)
(* C25.  After initialSetup, each of the 12 track segments it placed       *)
(* connects two adjacent hexes: getNeighbor(hex1.col, hex1.row, s) is hex2 *)
(* for some side s in 0..5.                                                *)
(***************************************************************************)
C25_SegmentsConnectNeighbours ==
  IsDefined(setupAt)
    => /\ Cardinality(PlacedBySetup) = 12
       /\ \A k \in PlacedBySetup : Adjacent(objects[k].hex1, objects[k].hex2)

\* The number of cycles the building completed: completeProductionCycle is
\* the only writer of inventory.outputs, and adds produces.amount per cycle.
Cycles(b) ==
  IF Known(b) /\ IsDefined(TypeOf(b).produces)
  THEN Held(b, Get(TypeOf(b).produces).type) \div Get(TypeOf(b).produces).amount
  ELSE 0

\* The total amount of a kind deposited into the building:
\* addResourceToBuilding is the only writer of inventory[kind], and adds the
\* amount of each deposit.
Deposited(b, kind) == Stock(b, kind)

Indices(cfg, total) ==
  <<(cfg.waterPercent * total) \div 1000,
    ((cfg.waterPercent + cfg.sandPercent) * total) \div 1000,
    ((cfg.waterPercent + cfg.sandPercent + cfg.grassPercent) * total) \div 1000,
    ((cfg.waterPercent + cfg.sandPercent + cfg.grassPercent + cfg.forestPercent)
       * total) \div 1000>>

NoneNegative(cfg) ==
  /\ cfg.waterPercent >= 0
  /\ cfg.sandPercent >= 0
  /\ cfg.grassPercent >= 0
  /\ cfg.forestPercent >= 0
  /\ cfg.mountainPercent >= 0

AllDefined(cfg) ==
  /\ IsDefined(cfg.sandThreshold)
  /\ IsDefined(cfg.grassThreshold)
  /\ IsDefined(cfg.forestThreshold)
  /\ IsDefined(cfg.mountainThreshold)

(***************************************************************************)
(* C27.  For percentages that are each >= 0 and sum to 100, the four       *)
(* indices used by calculateThresholdsFromPercentages lie within           *)
(* 0..sampleCount-1, and every calibrated threshold is a defined number.   *)
(***************************************************************************)
C27_IndicesWithinSamples ==
  (NoneNegative(config) /\ SumsTo100(config))
    => /\ \A i \in 1..4 : Indices(config, Samples)[i] \in 0..(Samples - 1)
       /\ AllDefined(config)

AtLeastOne(percentage) == ~DoubleLess(percentage, Percent(1))

\* The sum of the five percentages, added from left to right as doubles.
SumOfFive(cfg) == DoubleAdd(usedPercent(cfg), cfg.mountainPercent)

(***************************************************************************)
(* C28.  After the module's initialisation and any sequence of preset      *)
(* selections and handle drags, the five configured percentages sum to     *)
(* exactly 100 and each of them is >= 1.                                   *)
(***************************************************************************)
C28_PercentagesValid ==
  /\ SumOfFive(config) = Percent(100)
  /\ \A f \in PercentFields : AtLeastOne(config[f])

SaveReturned == lastSave.op = "saveGame" /\ lastSave.name # <<>>

(***************************************************************************)
(* C29.  saveGame leaves the success message displayed only if the new     *)
(* save entry was written to storage: when the storage write of            *)
(* saveAllSaves fails, the message displayed when saveGame returns is an   *)
(* error message.                                                          *)
(***************************************************************************)
C29_SuccessOnlyIfWritten ==
  (SaveReturned /\ ~lastSave.written) => saveMessage.type = "error"

StoredBefore == getAllSaves(lastSave.before)
StoredNow == getAllSaves(localStorage)

(***************************************************************************)
(* C30.  A saveGame call with a non-blank name whose write succeeds adds   *)
(* exactly one new entry to the stored saves and leaves every save stored  *)
(* before it present and unchanged.                                        *)
(***************************************************************************)
C30_AddsOneKeepsOthers ==
  (SaveReturned /\ lastSave.written)
    => /\ Cardinality(DOMAIN StoredNow) = Cardinality(DOMAIN StoredBefore) + 1
       /\ \A saveId \in DOMAIN StoredBefore :
            saveId \in DOMAIN StoredNow /\ StoredNow[saveId] = StoredBefore[saveId]

====
